---- MODULE Spec2Model ----
(***************************************************************************)
(* Model of scripts/fix-line-lengths.py: the line-length fixer for Kotlin  *)
(* files.  A string is a sequence of one-character strings; a text is a    *)
(* string that may hold the newline character.                             *)
(***************************************************************************)
EXTENDS Integers, Sequences, FiniteSets, TLC

\* ------------------------------------------------------------------------
\* Program constants
\* ------------------------------------------------------------------------
MAX_LINE_LENGTH == 140

\* The buffer the comma split leaves before the threshold (MAX_LINE_LENGTH - 20).
COMMA_BUFFER == 20

NL == "\n"
QUOTE == "\""

\* The four spaces every rule writes after base_indent in a continuation line.
LEVEL == <<" ", " ", " ", " ">>

\* ------------------------------------------------------------------------
\* Python string primitives
\* ------------------------------------------------------------------------
\* str.isspace / the regex class \s, on the whitespace of the model's alphabet
\* (a line never holds the newline: the text was split on it).
IsSpace(c) == c \in {" ", "\t"}

\* The regex class \w on ASCII: letters, digits and the underscore.
IsWord(c) ==
    c \in {"a", "b", "c", "d", "e", "f", "g", "h", "i", "j", "k", "l", "m",
           "n", "o", "p", "q", "r", "s", "t", "u", "v", "w", "x", "y", "z",
           "A", "B", "C", "D", "E", "F", "G", "H", "I", "J", "K", "L", "M",
           "N", "O", "P", "Q", "R", "S", "T", "U", "V", "W", "X", "Y", "Z",
           "0", "1", "2", "3", "4", "5", "6", "7", "8", "9", "_"}

Min(S) == CHOOSE x \in S : \A y \in S : x <= y
Max(S) == CHOOSE x \in S : \A y \in S : y <= x

\* s[a..] (1-based), the empty string when a is past the end.
From(s, a) == SubSeq(s, a, Len(s))

\* ' ' * n
Spaces(n) == [i \in 1..n |-> " "]

\* sub occurs in s at (1-based) position i.
OccursAt(s, sub, i) ==
    /\ i >= 1
    /\ i + Len(sub) - 1 <= Len(s)
    /\ SubSeq(s, i, i + Len(sub) - 1) = sub

\* The positions at which sub occurs in s.
Occurrences(s, sub) == {i \in 1..Len(s) : OccursAt(s, sub, i)}

\* `sub in s`
Contains(s, sub) == Occurrences(s, sub) # {}

\* The first position >= a whose character is not whitespace, Len(s)+1 if none:
\* where a greedy \s* started at a stops.
SkipSpace(s, a) ==
    IF \E i \in a..Len(s) : ~IsSpace(s[i])
    THEN CHOOSE i \in a..Len(s) :
             ~IsSpace(s[i]) /\ \A j \in a..(i - 1) : IsSpace(s[j])
    ELSE Len(s) + 1

\* The first position >= a whose character is in set cs, 0 if none.
FirstOf(s, cs, a) ==
    IF \E i \in a..Len(s) : s[i] \in cs
    THEN CHOOSE i \in a..Len(s) :
             s[i] \in cs /\ \A j \in a..(i - 1) : s[j] \notin cs
    ELSE 0

\* str.lstrip() and str.rstrip()
LStrip(s) == From(s, SkipSpace(s, 1))

RStrip(s) ==
    LET keep == {i \in 1..Len(s) : ~IsSpace(s[i])}
    IN  IF keep = {} THEN <<>> ELSE SubSeq(s, 1, Max(keep))

\* str.strip()
Strip(s) == RStrip(LStrip(s))

\* str.split('\n'): the pieces between the newlines, always at least one.
RECURSIVE SplitLines(_)
SplitLines(s) ==
    LET n == FirstOf(s, {NL}, 1)
    IN  IF n = 0 THEN <<s>>
        ELSE <<SubSeq(s, 1, n - 1)>> \o SplitLines(From(s, n + 1))

\* '\n'.join(ls)
RECURSIVE JoinLines(_)
JoinLines(ls) ==
    IF Len(ls) = 0 THEN <<>>
    ELSE IF Len(ls) = 1 THEN ls[1]
    ELSE ls[1] \o <<NL>> \o JoinLines(Tail(ls))

\* ------------------------------------------------------------------------
\* fix_line_patterns: the four regular expressions
\* ------------------------------------------------------------------------
\* The literal android\.util\.Log\.d\( of log_pattern.
LOG_CALL == <<"a", "n", "d", "r", "o", "i", "d", ".", "u", "t", "i", "l", ".",
              "L", "o", "g", ".", "d", "(">>

\* log_pattern with the literal at position p:
\*   \s* " [^"]* ", \s* " [^"]* " \s* \) .*
\* Every step after the literal is forced, so one scan decides the match.
LogAt(s, p) ==
    LET a == SkipSpace(s, p + Len(LOG_CALL))
        b == FirstOf(s, {QUOTE}, a + 1)
        c == SkipSpace(s, b + 2)
        d == FirstOf(s, {QUOTE}, c + 1)
        e == SkipSpace(s, d + 1)
        ok == /\ OccursAt(s, LOG_CALL, p)
              /\ a <= Len(s) /\ s[a] = QUOTE
              /\ b # 0
              /\ b + 1 <= Len(s) /\ s[b + 1] = ","
              /\ c <= Len(s) /\ s[c] = QUOTE
              /\ d # 0
              /\ e <= Len(s) /\ s[e] = ")"
    IN  [ok |-> ok,
         groups |-> IF ok
                    THEN <<SubSeq(s, 1, a - 1), SubSeq(s, a + 1, b - 1),
                           SubSeq(s, c + 1, d - 1), From(s, d + 1)>>
                    ELSE <<>>]

\* re.match(log_pattern, line): the greedy leading .* settles on the last
\* position of the literal from which the rest matches.
LogMatch(s) ==
    LET ps == {p \in 1..Len(s) : s[p] = LOG_CALL[1] /\ LogAt(s, p).ok}
    IN  IF ps = {} THEN [ok |-> FALSE, groups |-> <<>>] ELSE LogAt(s, Max(ps))

\* The two middle pieces shared by func_call_pattern and param_pattern, with
\* the opening parenthesis at p:   \( [^,)]* , \s* ([^,)]+) ,
\* c1 and c2 are the first and second of the characters , ) after p; both must
\* be commas with at least one character between them.  \s* is greedy and gives
\* back one character when the segment is all whitespace.
ArgsAt(s, p) ==
    LET c1 == FirstOf(s, {",", ")"}, p + 1)
        c2 == IF c1 = 0 THEN 0 ELSE FirstOf(s, {",", ")"}, c1 + 1)
        ok == /\ p >= 1 /\ p <= Len(s) /\ s[p] = "("
              /\ c1 # 0 /\ s[c1] = ","
              /\ c2 # 0 /\ s[c2] = ","
              /\ c2 > c1 + 1
        a  == SkipSpace(s, c1 + 1)
    IN  [ok |-> ok, c1 |-> c1, c2 |-> c2,
         param1 |-> IF ~ok THEN <<>>
                    ELSE IF a >= c2 THEN SubSeq(s, c2 - 1, c2 - 1)
                    ELSE SubSeq(s, a, c2 - 1)]

\* func_call_pattern with the parenthesis at p:
\*   \w+ \( [^,)]* , \s* ([^,)]+) , \s* ([^)]+ \) .*)
FuncCallAt(s, p) ==
    LET m == ArgsAt(s, p)
        r == IF m.ok THEN FirstOf(s, {")"}, m.c2 + 1) ELSE 0
        a == IF m.ok THEN SkipSpace(s, m.c2 + 1) ELSE 0
        ok == /\ m.ok
              /\ p >= 2 /\ IsWord(s[p - 1])
              /\ r # 0 /\ r > m.c2 + 1
    IN  [ok |-> ok,
         groups |-> IF ok
                    THEN <<SubSeq(s, 1, m.c1 - 1), m.param1,
                           IF a >= r THEN From(s, r - 1) ELSE From(s, a)>>
                    ELSE <<>>]

\* re.match(func_call_pattern, line)
FuncCallMatch(s) ==
    LET ps == {p \in 1..Len(s) : s[p] = "(" /\ FuncCallAt(s, p).ok}
    IN  IF ps = {} THEN [ok |-> FALSE, groups |-> <<>>]
        ELSE FuncCallAt(s, Max(ps))

\* param_pattern with the parenthesis at p:
\*   \( [^,)]* , \s* ([^,)]+) , \s* ([^)]+ .*)
\* The last group needs one character that is not ')' after the greedy \s*,
\* which gives back one whitespace character when it has to.
ParamAt(s, p) ==
    LET m == ArgsAt(s, p)
        a == IF m.ok THEN SkipSpace(s, m.c2 + 1) ELSE 0
        direct == a <= Len(s) /\ s[a] # ")"
        ok == m.ok /\ (direct \/ a > m.c2 + 1)
    IN  [ok |-> ok,
         groups |-> IF ok
                    THEN <<SubSeq(s, 1, m.c1 - 1), m.param1,
                           IF direct THEN From(s, a) ELSE From(s, a - 1)>>
                    ELSE <<>>]

\* re.match(param_pattern, line)
ParamMatch(s) ==
    LET ps == {p \in 1..Len(s) : s[p] = "(" /\ ParamAt(s, p).ok}
    IN  IF ps = {} THEN [ok |-> FALSE, groups |-> <<>>]
        ELSE ParamAt(s, Max(ps))

\* concat_pattern with the first quote at q:   " (\s* \+ \s* ") ([^"]* " .*)
\* a is the position of the '+' and b that of the quote closing the second
\* group.
ConcatAt(s, q) ==
    LET a == SkipSpace(s, q + 1)
        b == SkipSpace(s, a + 1)
        ok == /\ q >= 1 /\ q <= Len(s) /\ s[q] = QUOTE
              /\ a <= Len(s) /\ s[a] = "+"
              /\ b <= Len(s) /\ s[b] = QUOTE
              /\ FirstOf(s, {QUOTE}, b + 1) # 0
    IN  [ok |-> ok,
         groups |-> IF ok
                    THEN <<SubSeq(s, 1, q), SubSeq(s, q + 1, b), From(s, b + 1)>>
                    ELSE <<>>]

\* re.search(concat_pattern, line): the pattern opens with .*, so the search
\* succeeds from the start of the line whenever it succeeds at all.
ConcatMatch(s) ==
    LET qs == {q \in 1..Len(s) : s[q] = QUOTE /\ ConcatAt(s, q).ok}
    IN  IF qs = {} THEN [ok |-> FALSE, groups |-> <<>>]
        ELSE ConcatAt(s, Max(qs))

FUN_KW == <<"f", "u", "n", " ">>
CLASS_KW == <<"c", "l", "a", "s", "s", " ">>

\* The value fix_line_patterns returns: a list of lines (is_list) or, when
\* nothing could be done, the line itself as a string.  rule names the return
\* statement that produced it and op the operator of an operator split.
Produced(rule, op, items) ==
    [is_list |-> TRUE, rule |-> rule, op |-> op, items |-> items]

Untouched(line) ==
    [is_list |-> FALSE, rule |-> "none", op |-> <<>>, items |-> <<line>>]

\* ------------------------------------------------------------------------
\* break_at_logical_points
\* ------------------------------------------------------------------------
operators ==
    << <<" ", "&", "&", " ">>, <<" ", "|", "|", " ">>, <<" ", "+", " ">>,
       <<" ", "-", " ">>, <<" ", "*", " ">>, <<" ", "/", " ">>,
       <<" ", "=", "=", " ">>, <<" ", "!", "=", " ">>, <<" ", "<", "=", " ">>,
       <<" ", ">", "=", " ">>, <<" ", "<", " ">>, <<" ", ">", " ">> >>

\* line.split(op, 1) for an op that occurs in line
SplitOnce(line, op) ==
    LET i == Min(Occurrences(line, op))
    IN  <<SubSeq(line, 1, i - 1), From(line, i + Len(op))>>

\* OpQualifies with the comparison off by one: a part before the operator of
\* exactly MAX_LINE_LENGTH characters is accepted.
OpQualifiesLe(line, op) ==
    /\ Contains(line, op)
    /\ Len(SplitOnce(line, op)[1]) <= MAX_LINE_LENGTH

\* The test of the operator loop: op in line, and the part before it is short.
OpQualifies(line, op) ==
    /\ Contains(line, op)
    /\ Len(SplitOnce(line, op)[1]) < MAX_LINE_LENGTH

\* The two lines returned for the operator op.
OpBreak(line, base_indent, op) ==
    LET parts == SplitOnce(line, op)
    IN  << parts[1] \o RStrip(op),
           base_indent \o LEVEL \o LStrip(op) \o parts[2] >>

\* The comma positions (0-based, as m.start()) that leave the buffer.
CommaPositions(line) ==
    {i - 1 : i \in Occurrences(line, <<",", " ">>)}

GoodCommas(line) ==
    {pos \in CommaPositions(line) : pos < MAX_LINE_LENGTH - COMMA_BUFFER}

\* CommaBreak with base_indent left out of the continuation line.
CommaBreakFlat(line, base_indent, pos) ==
    << SubSeq(line, 1, pos + 1),
       LEVEL \o From(line, pos + 3) >>

\* The two lines returned for the comma at (0-based) pos:
\* line[:pos + 1] and base_indent + 4 spaces + line[pos + 2:].
CommaBreak(line, base_indent, pos) ==
    << SubSeq(line, 1, pos + 1),
       base_indent \o LEVEL \o From(line, pos + 3) >>

break_at_logical_points(line, base_indent) ==
    LET ks == {k \in 1..Len(operators) : OpQualifies(line, operators[k])}
    IN  IF ks # {}
        THEN Produced("operator", operators[Min(ks)],
                      OpBreak(line, base_indent, operators[Min(ks)]))
        ELSE IF GoodCommas(line) # {}
        THEN Produced("comma", <<>>,
                      CommaBreak(line, base_indent, Min(GoodCommas(line))))
        ELSE Untouched(line)

\* ------------------------------------------------------------------------
\* fix_line_patterns
\* ------------------------------------------------------------------------
\* Pattern 1: prefix / "tag", / "message" suffix
LogBreak(base_indent, g) ==
    << g[1],
       base_indent \o LEVEL \o <<QUOTE>> \o g[2] \o <<QUOTE, ",">>,
       base_indent \o LEVEL \o <<QUOTE>> \o g[3] \o <<QUOTE>> \o g[4] >>

\* Patterns 2 and 4: prefix, / param1, / rest
ArgBreak(base_indent, g) ==
    << g[1] \o <<",">>,
       base_indent \o LEVEL \o g[2] \o <<",">>,
       base_indent \o LEVEL \o g[3] >>

\* Pattern 3: before / operator.strip() after
ConcatBreak(base_indent, g) ==
    << g[1],
       base_indent \o LEVEL \o Strip(g[2]) \o g[3] >>

\* ('fun ' in group(1) or 'class ' in group(1))
IsDeclaration(prefix) == Contains(prefix, FUN_KW) \/ Contains(prefix, CLASS_KW)

fix_line_patterns(line, base_indent) ==
    LET log    == LogMatch(line)
        call   == FuncCallMatch(line)
        concat == ConcatMatch(line)
        param  == ParamMatch(line)
    IN  IF log.ok
        THEN Produced("log", <<>>, LogBreak(base_indent, log.groups))
        ELSE IF call.ok
        THEN Produced("call", <<>>, ArgBreak(base_indent, call.groups))
        ELSE IF concat.ok
        THEN Produced("concat", <<>>, ConcatBreak(base_indent, concat.groups))
        ELSE IF param.ok /\ IsDeclaration(param.groups[1])
        THEN Produced("decl", <<>>, ArgBreak(base_indent, param.groups))
        ELSE break_at_logical_points(line, base_indent)

\* indent = len(line) - len(line.lstrip()); base_indent = ' ' * indent
BaseIndent(line) == Spaces(Len(line) - Len(LStrip(line)))

\* FixLine with the length test off by one: a line of exactly
\* MAX_LINE_LENGTH characters is handed to fix_line_patterns.
FixLineStrict(line) ==
    IF Len(line) < MAX_LINE_LENGTH
    THEN Untouched(line)
    ELSE fix_line_patterns(line, BaseIndent(line))

\* One iteration of the loop of fix_long_lines: what the line contributes.
FixLine(line) ==
    IF Len(line) <= MAX_LINE_LENGTH
    THEN Untouched(line)
    ELSE fix_line_patterns(line, BaseIndent(line))

\* ------------------------------------------------------------------------
\* Inputs: the lines, texts, paths and argument lists the model runs on
\* ------------------------------------------------------------------------
\* Longest run of spaces used as indentation.
MaxIndent == 1
\* Line lengths run from the threshold to the threshold plus MaxOver.
MaxOver == 1
\* Lengths of the part before the second separator run from the threshold
\* minus MaxUnder to the threshold.
MaxUnder == 1
\* Longest text, in lines, of the multi-line texts.
MaxLines == 2
\* Most path arguments on the command line.
MaxArgs == 3
\* Most characters a failing write leaves in the file.
MaxPartial == 1

Fill(k) == [j \in 1..k |-> "a"]

Indents == {Spaces(n) : n \in 0..MaxIndent} \cup {<<"\t">>}

Openers ==
    { <<>>,
      <<"x">>,
      <<"x", ",", " ", "y">>,
      <<"f", "(", "x">>,
      <<"f", "u", "n", " ", "g", "(", "x">>,
      LOG_CALL \o <<QUOTE, "T", QUOTE>>,
      <<QUOTE, "m", QUOTE>> }

FirstSeps ==
    { <<>>,
      <<",", " ">>,
      <<",", " ", " ">>,
      <<",", " ", QUOTE>>,
      <<" ", "+", " ", QUOTE>>,
      <<"+", QUOTE>>,
      <<" ", "|", "|", " ">> }

SecondSeps ==
    { <<>>,
      <<",", " ">>,
      <<QUOTE>>,
      <<" ", "&", "&", " ">>,
      <<" ", "|", "|", " ">> }

Closers == { <<>>, <<"z">>, <<"z", ")">>, <<")">> }

\* The fill lengths tried for one shape: the lines whose total length is at
\* or just over the threshold, and the lines whose part before the second
\* separator is at or just under the threshold.
FillLens(pre, post) ==
    {t - pre - post : t \in MAX_LINE_LENGTH..(MAX_LINE_LENGTH + MaxOver)}
    \cup {h - pre : h \in (MAX_LINE_LENGTH - MaxUnder)..MAX_LINE_LENGTH}

LineSet ==
    UNION { UNION { { (ind \o a \o s1) \o Fill(k) \o (s2 \o c) :
                        k \in FillLens(Len(ind \o a \o s1), Len(s2 \o c)) } :
                    <<s2, c>> \in SecondSeps \X Closers } :
            <<ind, a, s1>> \in Indents \X Openers \X FirstSeps }

\* The lines of the multi-line texts: an empty line, a short indented line, a
\* line the comma rule splits and a line no rule splits.
SmallLines ==
    { <<>>,
      <<" ", "x">>,
      <<"x", ",", " ">> \o Fill(MAX_LINE_LENGTH - 2),
      Fill(MAX_LINE_LENGTH + 1) }

RECURSIVE SeqsUpTo(_, _)
SeqsUpTo(X, n) ==
    IF n = 0 THEN {<<>>}
    ELSE LET shorter == SeqsUpTo(X, n - 1)
         IN  shorter \cup {Append(q, x) : q \in shorter, x \in X}

Texts ==
    LineSet \cup {JoinLines(ls) : ls \in SeqsUpTo(SmallLines, MaxLines) \ {<<>>}}

\* What the disk holds at a path that does not exist: no text (a text is a
\* sequence of single characters).
Missing == <<"ENOENT">>

SCRIPT == <<"f", "i", "x">>
A_KT   == <<"a", ".", "k", "t">>
B_KT   == <<"b", ".", "k", "t">>
C_TXT  == <<"c", ".", "t", "x", "t">>
D_KT   == <<"d", "k", "t">>
Paths  == {A_KT, B_KT, C_TXT, D_KT}

KT == <<".", "k", "t">>

\* str.endswith
EndsWith(s, suffix) ==
    Len(s) >= Len(suffix) /\ From(s, Len(s) - Len(suffix) + 1) = suffix

\* The file contents of the runs with failing I/O: a text within the
\* threshold, a text one pass fixes and a text no rule can split.
CleanText == <<" ", "x", NL, "y">>
LongText  == <<"x", NL>> \o <<"x", ",", " ">> \o Fill(MAX_LINE_LENGTH - 2)
StuckText == Fill(MAX_LINE_LENGTH + 1)

\* Runs whose I/O never fails: one existing file holding any text, given
\* twice on the command line (the tool run twice on the same file).
RichDisks ==
    {[p \in Paths |-> IF p = A_KT THEN t ELSE Missing] : t \in Texts}

\* Runs whose I/O may fail: any argument list over the paths.
FaultyDisks ==
    {[p \in Paths |-> IF p = A_KT THEN t
                      ELSE IF p = B_KT THEN u
                      ELSE LongText] :
        t \in {CleanText, LongText, StuckText}, u \in {Missing, LongText}}

ArgLists == SeqsUpTo(Paths, MaxArgs)

\* ------------------------------------------------------------------------
\* The program: main, process_file and fix_long_lines as one sequential run
\* ------------------------------------------------------------------------
VARIABLES
    sys_argv,       \* the command line, script name first
    fs,             \* the disk: path -> text, or Missing
    faults,         \* whether I/O on existing files may fail in this run
    pc,             \* the statement the run is at
    i,              \* main: index into sys_argv of the current argument
    files_changed,  \* main: the counter
    exit_status,    \* the status passed to sys.exit, -1 while running
    file_path,      \* process_file: its argument
    content,        \* process_file: the text read
    fixed_content,  \* process_file: the text fix_long_lines returned
    ret,            \* process_file: the value returned
    lines,          \* fix_long_lines: content.split('\n')
    idx,            \* fix_long_lines: number of lines consumed by the loop
    fixed_lines,    \* fix_long_lines: the output list
    line,           \* fix_long_lines: the line of the last iteration
    fixed_line,     \* fix_long_lines: what the last iteration produced from it
    original,       \* history: the file's text on disk when process_file began
    caught,         \* history: process_file went through its except clause
    opens,          \* history: every open() attempted
    calls           \* history: every process_file call that returned

vars == <<sys_argv, fs, faults, pc, i, files_changed, exit_status, file_path,
          content, fixed_content, ret, lines, idx, fixed_lines, line,
          fixed_line, original, caught, opens, calls>>

mainVars == <<i, files_changed, exit_status>>
fileVars == <<file_path, content, fixed_content, ret, original, caught>>
fixVars  == <<lines, idx, fixed_lines, line, fixed_line>>
envVars  == <<sys_argv, faults>>

Start ==
    /\ pc = "main"
    /\ i = 0
    /\ files_changed = 0
    /\ exit_status = -1
    /\ file_path = <<>>
    /\ content = <<>>
    /\ fixed_content = <<>>
    /\ ret = FALSE
    /\ lines = <<>>
    /\ idx = 0
    /\ fixed_lines = <<>>
    /\ line = <<>>
    /\ fixed_line = Untouched(<<>>)
    /\ original = Missing
    /\ caught = FALSE
    /\ opens = <<>>
    /\ calls = <<>>

Init ==
    /\ \/ /\ faults = FALSE
          /\ sys_argv = <<SCRIPT, A_KT, A_KT>>
          /\ fs \in RichDisks
       \/ /\ faults = TRUE
          /\ sys_argv \in {<<SCRIPT>> \o args : args \in ArgLists}
          /\ fs \in FaultyDisks
    /\ Start

\* main: no arguments, print the usage and sys.exit(1)
Usage ==
    /\ pc = "main"
    /\ Len(sys_argv) < 2
    /\ exit_status' = 1
    /\ pc' = "done"
    /\ UNCHANGED <<envVars, fs, i, files_changed, fileVars, fixVars, opens, calls>>

\* main: files_changed = 0 and the for loop is entered
Begin ==
    /\ pc = "main"
    /\ ~(Len(sys_argv) < 2)
    /\ files_changed' = 0
    /\ i' = 2
    /\ pc' = "for"
    /\ UNCHANGED <<envVars, fs, exit_status, fileVars, fixVars, opens, calls>>

\* main: an argument that does not end in .kt is passed over
Skip ==
    /\ pc = "for"
    /\ i <= Len(sys_argv)
    /\ ~EndsWith(sys_argv[i], KT)
    /\ i' = i + 1
    /\ UNCHANGED <<envVars, fs, pc, files_changed, exit_status, fileVars,
                   fixVars, opens, calls>>

\* main: process_file(file_path) is called
Call ==
    /\ pc = "for"
    /\ i <= Len(sys_argv)
    /\ EndsWith(sys_argv[i], KT)
    /\ file_path' = sys_argv[i]
    /\ original' = fs[sys_argv[i]]
    /\ content' = <<>>
    /\ fixed_content' = <<>>
    /\ ret' = FALSE
    /\ caught' = FALSE
    /\ pc' = "open_r"
    /\ UNCHANGED <<envVars, fs, mainVars, fixVars, opens, calls>>

\* process_file: open(file_path, 'r') and f.read() succeed
Read ==
    /\ pc = "open_r"
    /\ fs[file_path] # Missing
    /\ content' = fs[file_path]
    /\ opens' = Append(opens, [arg |-> i, mode |-> "r"])
    /\ pc' = "split"
    /\ UNCHANGED <<envVars, fs, mainVars, file_path, fixed_content, ret,
                   original, caught, fixVars, calls>>

\* process_file: opening or reading raises (no such file, permission, decoding)
ReadError ==
    /\ pc = "open_r"
    /\ fs[file_path] = Missing \/ faults
    /\ opens' = Append(opens, [arg |-> i, mode |-> "r"])
    /\ pc' = "except"
    /\ UNCHANGED <<envVars, fs, mainVars, fileVars, fixVars, calls>>

\* fix_long_lines: lines = content.split('\n'); fixed_lines = []
Split ==
    /\ pc = "split"
    /\ lines' = SplitLines(content)
    /\ fixed_lines' = <<>>
    /\ idx' = 0
    /\ pc' = "loop"
    /\ UNCHANGED <<envVars, fs, mainVars, fileVars, line, fixed_line, opens, calls>>

\* fix_long_lines: one iteration of the for loop
Step ==
    /\ pc = "loop"
    /\ idx < Len(lines)
    /\ line' = lines[idx + 1]
    /\ fixed_line' = FixLine(lines[idx + 1])
    /\ fixed_lines' = fixed_lines \o fixed_line'.items
    /\ idx' = idx + 1
    /\ UNCHANGED <<envVars, fs, pc, mainVars, fileVars, lines, opens, calls>>

\* fix_long_lines: return '\n'.join(fixed_lines)
Join ==
    /\ pc = "loop"
    /\ idx = Len(lines)
    /\ fixed_content' = JoinLines(fixed_lines)
    /\ pc' = "compare"
    /\ UNCHANGED <<envVars, fs, mainVars, file_path, content, ret, original,
                   caught, fixVars, opens, calls>>

\* process_file: fixed_content == content, return False
Same ==
    /\ pc = "compare"
    /\ ~(fixed_content # content)
    /\ ret' = FALSE
    /\ pc' = "ret"
    /\ UNCHANGED <<envVars, fs, mainVars, file_path, content, fixed_content,
                   original, caught, fixVars, opens, calls>>

\* Differs without the comparison: the file is written whatever the result.
DiffersAlways ==
    /\ pc = "compare"
    /\ pc' = "open_w"
    /\ UNCHANGED <<envVars, fs, mainVars, fileVars, fixVars, opens, calls>>

\* process_file: fixed_content != content, go on to write
Differs ==
    /\ pc = "compare"
    /\ fixed_content # content
    /\ pc' = "open_w"
    /\ UNCHANGED <<envVars, fs, mainVars, fileVars, fixVars, opens, calls>>

\* process_file: open(file_path, 'w') succeeds; the file is truncated
OpenWrite ==
    /\ pc = "open_w"
    /\ fs' = [fs EXCEPT ![file_path] = <<>>]
    /\ opens' = Append(opens, [arg |-> i, mode |-> "w"])
    /\ pc' = "write"
    /\ UNCHANGED <<envVars, mainVars, fileVars, fixVars, calls>>

\* process_file: open(file_path, 'w') raises; the file is as it was
OpenWriteError ==
    /\ pc = "open_w"
    /\ faults
    /\ opens' = Append(opens, [arg |-> i, mode |-> "w"])
    /\ pc' = "except"
    /\ UNCHANGED <<envVars, fs, mainVars, fileVars, fixVars, calls>>

\* process_file: f.write(fixed_content) and the close succeed, return True
Write ==
    /\ pc = "write"
    /\ fs' = [fs EXCEPT ![file_path] = fixed_content]
    /\ ret' = TRUE
    /\ pc' = "ret"
    /\ UNCHANGED <<envVars, mainVars, file_path, content, fixed_content,
                   original, caught, fixVars, opens, calls>>

\* process_file: the write or the flush at close raises after n characters
\* reached the truncated file
WriteError ==
    /\ pc = "write"
    /\ faults
    /\ \E n \in 0..MaxPartial :
          /\ n < Len(fixed_content)
          /\ fs' = [fs EXCEPT ![file_path] = SubSeq(fixed_content, 1, n)]
    /\ pc' = "except"
    /\ UNCHANGED <<envVars, mainVars, fileVars, fixVars, opens, calls>>

\* process_file: except Exception, print the error, return False
Except ==
    /\ pc = "except"
    /\ ret' = FALSE
    /\ caught' = TRUE
    /\ pc' = "ret"
    /\ UNCHANGED <<envVars, fs, mainVars, file_path, content, fixed_content,
                   original, fixVars, opens, calls>>

\* Return counting every processed file, whatever process_file returned.
ReturnCounting ==
    /\ pc = "ret"
    /\ files_changed' = files_changed + 1
    /\ calls' = Append(calls, [arg |-> i, ret |-> ret, error |-> caught])
    /\ i' = i + 1
    /\ pc' = "for"
    /\ UNCHANGED <<envVars, fs, exit_status, fileVars, fixVars, opens>>

\* main: if process_file(file_path): files_changed += 1; next argument
Return ==
    /\ pc = "ret"
    /\ files_changed' = IF ret THEN files_changed + 1 ELSE files_changed
    /\ calls' = Append(calls, [arg |-> i, ret |-> ret,
                               error |-> caught])
    /\ i' = i + 1
    /\ pc' = "for"
    /\ UNCHANGED <<envVars, fs, exit_status, fileVars, fixVars, opens>>

\* main: the loop is over, sys.exit(1) if files_changed > 0 else sys.exit(0)
Exit ==
    /\ pc = "for"
    /\ ~(i <= Len(sys_argv))
    /\ exit_status' = IF files_changed > 0 THEN 1 ELSE 0
    /\ pc' = "done"
    /\ UNCHANGED <<envVars, fs, i, files_changed, fileVars, fixVars, opens, calls>>

Next ==
    \/ Usage \/ Begin \/ Skip \/ Call \/ Exit
    \/ Read \/ ReadError
    \/ Split \/ Step \/ Join
    \/ Same \/ Differs
    \/ OpenWrite \/ OpenWriteError \/ Write \/ WriteError
    \/ Except \/ Return

Spec == Init /\ [][Next]_vars

\* ------------------------------------------------------------------------
\* Vocabulary of the properties
\* ------------------------------------------------------------------------
\* The loop of fix_long_lines has just finished an iteration, on `line`.
AfterStep == pc = "loop" /\ idx > 0

\* The iteration just finished replaced an over-length line by a list.
WasSplit == AfterStep /\ fixed_line.is_list

\* The lines the last iteration produced.
items == fixed_line.items

\* The iteration just finished reached break_at_logical_points.
InFallback ==
    /\ AfterStep
    /\ Len(line) > MAX_LINE_LENGTH
    /\ fixed_line.rule \in {"operator", "comma", "none"}

\* Number of leading space characters / leading whitespace characters of s.
LeadingSpaces(s) ==
    Cardinality({n \in 1..Len(s) : \A j \in 1..n : s[j] = " "})

LeadingWhitespace(s) ==
    Cardinality({n \in 1..Len(s) : \A j \in 1..n : IsSpace(s[j])})

\* The first position of operators[k] in the line, and the length before it.
OpIndex(k) == Min(Occurrences(line, operators[k]))
PreLen(k) == OpIndex(k) - 1
Present(k) == Occurrences(line, operators[k]) # {}

\* The last iteration returned the operator split at operators[k].
SplitAtOp(k) ==
    /\ fixed_line.rule = "operator"
    /\ Len(items) = 2
    /\ items[1] = SubSeq(line, 1, PreLen(k)) \o RStrip(operators[k])

NotBlank(c) == ~IsSpace(c) /\ c # NL

\* s with all whitespace and newlines deleted.
Squeeze(s) == SelectSeq(s, NotBlank)

\* The lines of ls one after the other.
RECURSIVE Flat(_)
Flat(ls) == IF ls = <<>> THEN <<>> ELSE Head(ls) \o Flat(Tail(ls))

IsShort(l) == Len(l) <= MAX_LINE_LENGTH

\* Every line of the text t is within the threshold.
AllShort(t) == \A k \in 1..Len(SplitLines(t)) : IsShort(SplitLines(t)[k])

\* xs occurs in ys as a subsequence (same elements, same relative order).
RECURSIVE IsSubseq(_, _)
IsSubseq(xs, ys) ==
    IF xs = <<>> THEN TRUE
    ELSE IF ys = <<>> THEN FALSE
    ELSE IF Head(xs) = Head(ys) THEN IsSubseq(Tail(xs), Tail(ys))
    ELSE IsSubseq(xs, Tail(ys))

\* The run is the tool applied twice to one file with no I/O failure, and the
\* second application's fix_long_lines has returned.
SecondPassDone ==
    /\ ~faults
    /\ Len(sys_argv) = 3 /\ sys_argv[2] = sys_argv[3]
    /\ Len(calls) = 1
    /\ pc = "compare"

\* The open() calls of mode m made for argument a.
OpensOf(a, m) == {k \in 1..Len(opens) : opens[k].arg = a /\ opens[k].mode = m}

\* The arguments (indices into sys_argv) that end in .kt, in order.
RECURSIVE KtArgs(_)
KtArgs(from) ==
    IF from > Len(sys_argv) THEN <<>>
    ELSE IF EndsWith(sys_argv[from], KT) THEN <<from>> \o KtArgs(from + 1)
    ELSE KtArgs(from + 1)

\* ------------------------------------------------------------------------
\* Properties
\* ------------------------------------------------------------------------
\* C1: idempotence. Running the fixer on its own output changes nothing:
\* when the tool is run a second time on the file the first run left, the
\* text fix_long_lines returns equals the text it was given.
C1_Idempotent ==
    SecondPassDone => fixed_content = content

\* C2: length invariant. Every line produced by splitting an over-length
\* line is strictly shorter than the line it came from.
C2_ProducedLinesShorter ==
    WasSplit => \A k \in 1..Len(items) : Len(items[k]) < Len(line)

\* C3: pass-through. A line within the threshold is appended to the output
\* as it is; the short lines of the input occur in the output in their
\* order; a text with no over-length line is returned identical, and
\* process_file then returns False with the file not opened for writing and
\* left as it was.
C3_PassThrough ==
    /\ (AfterStep /\ IsShort(lines[idx]))
          => /\ fixed_lines # <<>>
             /\ fixed_lines[Len(fixed_lines)] = lines[idx]
             /\ ~fixed_line.is_list
    /\ pc = "compare"
          => /\ IsSubseq(SelectSeq(SplitLines(content), IsShort),
                         SplitLines(fixed_content))
             /\ AllShort(content) => fixed_content = content
    /\ (pc = "ret" /\ original # Missing /\ AllShort(original))
          => /\ ret = FALSE
             /\ OpensOf(i, "w") = {}
             /\ fs[file_path] = original

\* C3 witness: fix_long_lines has returned a text in which a short, non-empty
\* line was kept next to an over-length line that was split.
C3_Witness ==
    /\ pc = "compare"
    /\ Len(lines) >= 2
    /\ \E k \in 1..Len(lines) : IsShort(lines[k]) /\ lines[k] # <<>>
    /\ Len(fixed_lines) > Len(lines)

\* C4: atomic per-file outcome. When process_file returns, the file holds
\* either the whole rewritten text or exactly what it held before; and when
\* process_file returns False the file holds what it held before.
C4_AtomicOutcome ==
    pc = "ret" =>
        /\ fs[file_path] = original \/ fs[file_path] = fixed_content
        /\ ret = FALSE => fs[file_path] = original

\* C5: exit status. The run ends with status 1 exactly when there were no
\* arguments or some .kt argument's process_file returned True, and with 0
\* otherwise; every .kt argument was processed, in order, whatever failed;
\* a call that went through the except clause returned False; the counter
\* is the number of calls that returned True.
C5_ExitStatus ==
    /\ files_changed = Cardinality({k \in 1..Len(calls) : calls[k].ret})
    /\ \A k \in 1..Len(calls) :
          /\ EndsWith(sys_argv[calls[k].arg], KT)
          /\ calls[k].error => ~calls[k].ret
    /\ pc = "done" =>
          /\ exit_status \in {0, 1}
          /\ exit_status = 1 <=>
                \/ Len(sys_argv) < 2
                \/ \E k \in 1..Len(calls) : calls[k].ret
          /\ Len(sys_argv) >= 2 =>
                [k \in 1..Len(calls) |-> calls[k].arg] = KtArgs(2)

\* C5 witness: a run over two .kt files ended with status 1 although the
\* processing of one of them raised.
C5_Witness ==
    /\ pc = "done"
    /\ exit_status = 1
    /\ \E k \in 1..Len(calls) : calls[k].error
    /\ \E k \in 1..Len(calls) : calls[k].ret

\* C6: write frame. Only .kt arguments are ever opened; a file is open for
\* writing only after all lines were processed and only when the fixed text
\* differs from the text read; each processed argument is opened for writing
\* at most once; a call that found nothing to change opened nothing for
\* writing and left the file as it was.
C6_WriteFrame ==
    /\ \A k \in 1..Len(opens) : EndsWith(sys_argv[opens[k].arg], KT)
    /\ \A a \in 1..Len(sys_argv) : Cardinality(OpensOf(a, "w")) <= 1
    /\ pc = "write" =>
          /\ EndsWith(file_path, KT)
          /\ file_path = sys_argv[i]
          /\ idx = Len(lines)
          /\ fixed_content = JoinLines(fixed_lines)
          /\ fixed_content # content
          /\ OpensOf(i, "r") # {}
    /\ (pc = "ret" /\ ~caught /\ fixed_content = content)
          => /\ OpensOf(i, "w") = {}
             /\ fs[file_path] = original

\* C6 witness: a run passed over an argument without the suffix, left an
\* unchanged .kt file unwritten and has another .kt file open for writing.
C6_Witness ==
    /\ pc = "write"
    /\ \E a \in 2..(i - 1) : ~EndsWith(sys_argv[a], KT)
    /\ \E k \in 1..Len(calls) : ~calls[k].ret /\ ~calls[k].error

\* C7: operator-split shape. The operator split returns exactly two lines:
\* the text before the operator with the operator attached, trailing
\* whitespace trimmed, and the indentation plus 4 spaces followed by the text
\* after the operator only.
C7_OperatorSplitShape ==
    (AfterStep /\ fixed_line.rule = "operator") =>
        \E k \in 1..Len(operators) :
            /\ Present(k)
            /\ items = << RStrip(SubSeq(line, 1, PreLen(k)) \o operators[k]),
                          Spaces(LeadingWhitespace(line)) \o LEVEL
                            \o From(line, OpIndex(k) + Len(operators[k])) >>

\* C8 as stated: in the fallback the split is at the first operator of the
\* list that is present with a part before it of length <= 140; the comma
\* split and the no-op happen only when there is no such operator.
C8_OperatorWithinThreshold ==
    InFallback =>
        LET Q == {k \in 1..Len(operators) :
                    Present(k) /\ PreLen(k) <= MAX_LINE_LENGTH}
        IN  IF Q # {} THEN SplitAtOp(Min(Q))
            ELSE fixed_line.rule \in {"comma", "none"}

\* C8 as amended: in the fallback the split is at the first operator of the
\* list that is present with a part before it of length < 140 (strictly);
\* the comma split and the no-op happen only when there is no such operator.
C8_OperatorBelowThreshold ==
    InFallback =>
        LET Q == {k \in 1..Len(operators) :
                    Present(k) /\ PreLen(k) < MAX_LINE_LENGTH}
        IN  IF Q # {} THEN SplitAtOp(Min(Q))
            ELSE fixed_line.rule \in {"comma", "none"}

\* C8 witness: an operator earlier in the list was present but passed over
\* because the part before it was too long, and a later one was used.
C8_Witness ==
    /\ InFallback
    /\ \E k \in 1..Len(operators) :
          /\ Present(k) /\ PreLen(k) < MAX_LINE_LENGTH /\ SplitAtOp(k)
          /\ \E j \in 1..(k - 1) : Present(j) /\ PreLen(j) >= MAX_LINE_LENGTH

\* C9 as stated: every continuation line begins with exactly n + 4 spaces, n
\* the number of leading space characters of the original line, and the
\* character after them is not whitespace.
C9_ExactIndent ==
    WasSplit =>
        \A k \in 2..Len(items) :
            LET n == LeadingSpaces(line)
            IN  /\ Len(items[k]) >= n + 5
                /\ \A j \in 1..(n + 4) : items[k][j] = " "
                /\ ~IsSpace(items[k][n + 5])

\* C9 as amended: every continuation line begins with n + 4 spaces, n the
\* number of leading whitespace characters (spaces or tabs) of the original
\* line; what follows them may itself begin with whitespace.
C9_IndentPlusLevel ==
    WasSplit =>
        \A k \in 2..Len(items) :
            LET n == LeadingWhitespace(line)
            IN  /\ Len(items[k]) >= n + 4
                /\ \A j \in 1..(n + 4) : items[k][j] = " "

\* C9 witness: an indented over-length line was split into three lines.
C9_Witness ==
    /\ WasSplit
    /\ Len(items) = 3
    /\ LeadingWhitespace(line) >= 1

\* C10: content preservation. The lines produced from an over-length line,
\* put together with all whitespace deleted, are the line with all whitespace
\* deleted; so are the text returned and the text given.
C10_ContentPreserved ==
    /\ WasSplit => Squeeze(Flat(items)) = Squeeze(line)
    /\ pc = "compare" => Squeeze(fixed_content) = Squeeze(content)

====
